---- MODULE Spec2Model ----
(***************************************************************************)
(* Keyed watermark codec of PFA-CryptoMark (Back/core, Back/services,      *)
(* Back/api): key derivation, payload framing and encryption, the seeded   *)
(* pixel selection, the LSB embed/extract pipelines (plain and redundant), *)
(* the metadata and frequency modalities and the verify endpoint.          *)
(*                                                                         *)
(* Library code is modelled by what it does, at reduced width:             *)
(*   - SHA-256 digests are cut to their two leading bytes;                 *)
(*   - numpy's global generator is a counter-based generator: the state is *)
(*     the pair (seed, number of draws made since seeding);                *)
(*   - a Fernet token is four characters <<iv, body, tag, last>>: a random *)
(*     iv, the encrypted plaintext, a keyed tag over both, and the last    *)
(*     character of the base64 text, whose unused bits no check covers;    *)
(*   - the JSON text of a signature record is one byte.                    *)
(***************************************************************************)
EXTENDS Integers, Sequences, FiniteSets, TLC

VARIABLES
    cipherKey,   \* EncryptionService.encryption_key of the running processor
    hashSeed,    \* the process's string-hash randomisation (PYTHONHASHSEED)
    rng,         \* numpy's process-wide generator: [seed, pos]
    input,       \* the caller's image handed to the last apply
    img,         \* the image at hand: the last upload or the last apply's result
    emb,         \* what the last apply did (NoEmbed when img is a plain upload)
    prev,        \* the apply before the last one (NoEmbed when there is none)
    flips,       \* pixel positions whose embedded LSB was flipped since the apply
    ext,         \* result of extract_watermark, when that was the last request
    ver,         \* answer of /images/verify, when that was the last request
    vk,          \* verify_user_key on the record of ext: [record, user_key, result]
    thr,         \* operations running concurrently on the generator: [pc, seed, obs]
    fr,          \* a token being framed and parsed back: [stage, token, frame, ...]
    resp,        \* the answer of the last POST /images/watermark: [status, ...]
    cap,         \* an apply and extract on a large image, by lengths: [stage, ...]
    gen          \* the keys generate_user_key handed out: [process, state, ..., key]

vars == <<cipherKey, hashSeed, rng, input, img, emb, prev, flips, ext, ver, vk, thr, fr, resp,
          cap, gen>>

----------------------------------------------------------------------------
(* Bounds of the model *)

NumCipherKeys == 2   \* distinct keys Fernet.generate_key() can return
NumIVs == 2          \* distinct ivs a Fernet.encrypt call can draw
NumHashSeeds == 2    \* distinct string-hash seeds a process can start with
MaxFlips == 2        \* LSB positions an attacker flips after an apply
MaxDraws == 3        \* draws a concurrent operation makes after seeding
NumEntropy == 2      \* outcomes of the OS entropy a fresh generator starts with
MaxGenerated == 2    \* keys generate_user_key hands out
MaxTokenBytes == 3   \* bytes of a token that is framed on its own

(* Program constants *)

LengthHeaderBits == 32
MaxMessageLength == 100000
RedundancyStep == 25
HashTextModulus == 1000000

----------------------------------------------------------------------------
(* Python values *)

PyNone == [py_none |-> TRUE]
EmptyDict == [k \in {} |-> 0]
NoError == "None"

\* Python truthiness of a dict-or-None
Truthy(d) == d # PyNone /\ DOMAIN d # {}

Min(a, b) == IF a < b THEN a ELSE b
Max(a, b) == IF a > b THEN a ELSE b

----------------------------------------------------------------------------
(* Inputs *)

Secrets == {"hunter2", "hunter3", "k"}
Texts == {"hi", "Protected Image"}
Times == {0, 1}
Strengths == {10, 25, 50, 75, 100}
Modalities == {"invisible", "steganography", "frequency", "metadata"}
CipherKeys == 1..NumCipherKeys
IVs == 0..(NumIVs - 1)
HashSeeds == 1..NumHashSeeds

----------------------------------------------------------------------------
(* hashlib.sha256: the two leading bytes of the real digests *)

Sha256(s) ==
    CASE s = "hunter2" -> <<245, 47>>
      [] s = "hunter3" -> <<251, 140>>
      [] s = "k"       -> <<130, 84>>
      [] s = "hunter34" -> <<99, 222>>
      [] s = "hi"      -> <<143, 67>>
      [] s = "Protected Image" -> <<108, 221>>
      [] OTHER         -> <<0, 0>>

\* hexdigest()[:16]: the digest prefix committed as key_hash / KeyHash
KeyHashOf(user_key) == Sha256(user_key)

\* EncryptionService.generate_hash on a text
generate_hash(data) == Sha256(data)

\* _get_seed_from_key: the leading digest bytes as an integer
get_seed_from_key(user_key) == Sha256(user_key)[1]

\* Python's per-process randomised hash() of a str
StrHash(hs, text) == (Sha256(text)[1] * 7919 + hs * 104729 + Sha256(text)[2]) % 2000003

----------------------------------------------------------------------------
(* numpy.random: one global generator per process *)

Mix(seed, pos) ==
    LET s == seed % 1009
    IN  ((s + 3) * (pos + 11) * 37 + (pos * pos) * 5 + s * 101) % 1009

\* np.random.random() < strength / 100.0 on the draw at position pos
RandomBelow(seed, pos, strength) == (Mix(seed, pos) % 100) < strength

\* np.random.randint(0, 3) on the draw at position pos
Randint3(seed, pos) == (Mix(seed, pos) \div 100) % 3

Seeded(seed, draws) == [seed |-> seed, pos |-> draws]

----------------------------------------------------------------------------
(* json.dumps / json.loads of a signature record: one byte               *)
(*   text + 2*timestamp + 4*key + 16*method + 32*strength                *)
(* (the diagnostic "dimensions" field is left out of the byte)           *)

TextSeq == <<"hi", "Protected Image">>
SecretSeq == <<"hunter2", "hunter3", "k", "hunter34">>
MethodSeq == <<"invisible", "steganography">>
StrengthSeq == <<0, 10, 25, 50, 75, 100>>

IndexOf(seq, x) == (CHOOSE i \in 1..Len(seq) : seq[i] = x) - 1

\* signature_data of _invisible_watermark (lines 62-69)
InvisibleSignature(text, now, strength, user_key) ==
    [text |-> text, timestamp |-> now, protection_level |-> strength,
     method |-> "invisible", key_hash |-> KeyHashOf(user_key)]

\* signature_data of _steganography_watermark (lines 91-97)
SteganographySignature(text, now, user_key) ==
    [text |-> text, timestamp |-> now, method |-> "steganography",
     checksum |-> generate_hash(text), key_hash |-> KeyHashOf(user_key)]

KeyIndex(kh) == (CHOOSE i \in 1..Len(SecretSeq) : KeyHashOf(SecretSeq[i]) = kh) - 1

JsonDumps(sig) ==
    IndexOf(TextSeq, sig.text) + 2 * sig.timestamp + 4 * KeyIndex(sig.key_hash)
    + 16 * IndexOf(MethodSeq, sig.method)
    + 32 * (IF "protection_level" \in DOMAIN sig
            THEN IndexOf(StrengthSeq, sig.protection_level) ELSE 0)

\* json.loads: PyNone stands for the exception raised on bytes that are no record
JsonLoads(byte) ==
    LET t == byte % 2
        n == (byte \div 2) % 2
        k == (byte \div 4) % 4
        m == (byte \div 16) % 2
        s == byte \div 32
    IN  IF k >= Len(SecretSeq) \/ s >= Len(StrengthSeq) \/ (m = 1 /\ s # 0)
        THEN PyNone
        ELSE IF m = 0
        THEN InvisibleSignature(TextSeq[t + 1], n, StrengthSeq[s + 1], SecretSeq[k + 1])
        ELSE SteganographySignature(TextSeq[t + 1], n, SecretSeq[k + 1])

----------------------------------------------------------------------------
(* The text json.dumps produces, as the order of its keys and the two       *)
(* separators it writes (the values are written alike by every call).      *)

\* the keys of signature_data in the order the dict literal inserts them
SignatureKeys(method) ==
    CASE method = "invisible" ->
            <<"text", "timestamp", "dimensions", "protection_level", "method", "key_hash">>
      [] method = "steganography" ->
            <<"text", "timestamp", "method", "checksum", "key_hash">>
      [] method = "frequency" ->
            <<"text", "timestamp", "method", "strength", "key_hash">>
      [] OTHER ->
            <<"Copyright", "Artist", "Description", "Software", "Protection_Level",
              "KeyHash", "Signature">>

\* all keys in the order sorted() gives them (upper case before lower case)
KeyOrder ==
    <<"Artist", "Copyright", "Description", "KeyHash", "Protection_Level", "Signature",
      "Software", "checksum", "dimensions", "key_hash", "method", "protection_level",
      "strength", "text", "timestamp">>

SortedKeys(keys) ==
    SelectSeq(KeyOrder, LAMBDA k : \E i \in 1..Len(keys) : keys[i] = k)

\* json.dumps(obj, sort_keys=...) with the default separators
json_dumps(keys, sort_keys) ==
    [keys |-> IF sort_keys THEN SortedKeys(keys) ELSE keys,
     item_separator |-> ", ", key_separator |-> ": "]

\* the text that is never serialised
NoJson == [keys |-> <<>>, item_separator |-> "", key_separator |-> ""]

----------------------------------------------------------------------------
(* cryptography.fernet.Fernet as used by EncryptionService *)

Pow2(n) == 2 ^ n

InvalidToken == <<>>

\* len(json.dumps(signature_data)) of the record a plaintext byte stands for:
\* the fixed keys, punctuation, timestamp, key_hash (and checksum or a
\* three-character dimensions string) plus the text and the strength digits
JsonLength(plain) ==
    LET text_length == IF plain % 2 = 0 THEN 2 ELSE 15
        s == plain \div 32
        digits == IF s = 0 THEN 1 ELSE IF s = 5 THEN 3 ELSE 2
    IN  IF (plain \div 16) % 2 = 0 THEN 153 + text_length + digits
        ELSE 146 + text_length

\* bytes of a Fernet token before its text encoding: version, timestamp, iv,
\* the plaintext padded to whole 16-byte blocks, and the HMAC
FernetTokenLength(plain_length) == 1 + 8 + 16 + 16 * ((plain_length \div 16) + 1) + 32

\* base64.urlsafe_b64encode: the bits of the last character that encode no
\* byte (they are emitted as zeros and ignored by urlsafe_b64decode)
Base64Slack(token_length) ==
    CASE token_length % 3 = 0 -> 0
      [] token_length % 3 = 1 -> 4
      [] token_length % 3 = 2 -> 2

\* the last character of a token with its unused bits cleared
Significant(char, slack) == (char \div Pow2(slack)) * Pow2(slack)

FernetPad(key, iv) == (key * 53 + iv * 29 + 7) % 256
FernetTag(key, iv, body) == (key * 97 + iv * 61 + body * 5 + 13) % 256
FernetTail(key, iv, body) == (key * 41 + iv * 83 + body * 7 + 59) % 256

\* EncryptionService.encrypt: the iv (and clock) are drawn by the library;
\* the token is text, <<iv, body, tag, last character>>
encrypt(key, iv, plain) ==
    LET body == (plain + FernetPad(key, iv)) % 256
        slack == Base64Slack(FernetTokenLength(JsonLength(plain)))
    IN  <<iv, body, FernetTag(key, iv, body),
          Significant(FernetTail(key, iv, body), slack)>>

\* EncryptionService.decrypt: <<plain>> or InvalidToken (the raised exception)
\* a decryption that does not authenticate the token
decrypt_unauthenticated(key, token) ==
    IF Len(token) # 4 THEN InvalidToken
    ELSE <<(token[2] + 256 - FernetPad(key, token[1])) % 256>>

decrypt(key, token) ==
    IF Len(token) # 4 THEN InvalidToken
    ELSE LET plain == (token[2] + 256 - FernetPad(key, token[1])) % 256
             slack == Base64Slack(FernetTokenLength(JsonLength(plain)))
         IN  IF token[3] # FernetTag(key, token[1], token[2]) THEN InvalidToken
             ELSE IF Significant(token[4], slack)
                     # Significant(FernetTail(key, token[1], token[2]), slack)
             THEN InvalidToken
             ELSE <<plain>>

----------------------------------------------------------------------------
(* bit strings: format(x, '08b'), format(x, '032b'), int(bits, 2) *)

\* a byte written with its least significant bit first
Format08bLsbFirst(byte) == [i \in 1..8 |-> (byte \div Pow2(i - 1)) % 2]

Format08b(byte) == [i \in 1..8 |-> (byte \div Pow2(8 - i)) % 2]

Format032b(n) ==
    [i \in 1..LengthHeaderBits |->
        IF i = 1 THEN 0 ELSE (n \div Pow2(LengthHeaderBits - i)) % 2]

\* int(bits, 2); values above the extractor's limit all compare alike, so the
\* parse saturates just above it
BinToInt(bits) ==
    LET f[i \in 0..Len(bits)] ==
            IF i = 0 THEN 0
            ELSE Min(2 * f[i - 1] + bits[i], MaxMessageLength + 1)
    IN  f[Len(bits)]

RECURSIVE BytesToBits(_)
BytesToBits(bytes) ==
    IF bytes = <<>> THEN <<>>
    ELSE Format08b(Head(bytes)) \o BytesToBits(Tail(bytes))

\* bytes(int(message_binary[i:i+8], 2) for i in range(0, len, 8)), len % 8 = 0
BitsToBytes(bits) ==
    [b \in 1..(Len(bits) \div 8) |-> BinToInt(SubSeq(bits, 8 * b - 7, 8 * b))]

\* the framing of _prepare_binary_data: the bits of the token behind the
\* 32-bit header that counts them
FramePayload(encrypted_signature) ==
    LET signature_binary == BytesToBits(encrypted_signature)
        length_binary == Format032b(Len(signature_binary))
    IN  length_binary \o signature_binary

\* the parse of the extractors: int(binary_data[:32], 2), the slice
\* binary_data[32:32+message_length] and the bytes assembled from it
ParseFrame(binary_data) ==
    LET message_length == BinToInt(SubSeq(binary_data, 1, LengthHeaderBits))
        message_binary ==
            SubSeq(binary_data, LengthHeaderBits + 1,
                   Min(LengthHeaderBits + message_length, Len(binary_data)))
    IN  [message_length |-> message_length, message_binary |-> message_binary,
         bytes |-> BitsToBytes(message_binary)]

\* WatermarkProcessor._prepare_binary_data
prepare_binary_data(key, iv, signature_data) ==
    FramePayload(encrypt(key, iv, JsonDumps(signature_data)))

----------------------------------------------------------------------------
(* Images: a PIL image as [h, w, mode, px, exif, file].  px lists the      *)
(* pixels in row-major order, each a tuple of 8-bit samples (one for mode  *)
(* "L", three for "RGB").  file tells a decoded upload (which carries      *)
(* _getexif) from an image built in memory (Image.fromarray, copy).        *)

CameraExif == [Make |-> "cam"]

Sample(k, c) == (k * 37 + c * 101 + 5) % 256

MakeImage(h, w, mode, fill, exif) ==
    [h |-> h, w |-> w, mode |-> mode,
     px |-> [k \in 1..(h * w) |->
                IF mode = "RGB"
                THEN [c \in 1..3 |-> IF fill >= 0 THEN fill ELSE Sample(k, c)]
                ELSE [c \in 1..1 |-> IF fill >= 0 THEN fill ELSE Sample(k, c)]],
     exif |-> exif, file |-> TRUE]

Images ==
    { MakeImage(4, 4, "RGB", 128, EmptyDict),
      MakeImage(8, 8, "RGB", 128, EmptyDict),
      MakeImage(8, 8, "L", -1, EmptyDict),
      MakeImage(16, 16, "RGB", -1, CameraExif) }

\* len(img_array.shape) == 3
IsColor(image) == image.mode = "RGB"

\* (pixel_val & 0xFE) | bit_to_embed
\* a write that masks with 0xFC: it clears the two low bits before setting one
SetLsbClearingTwo(pixel_val, bit) == (pixel_val \div 4) * 4 + bit

SetLsb(pixel_val, bit) == (pixel_val \div 2) * 2 + bit

\* pixel_val & 1
Lsb(pixel_val) == pixel_val % 2

\* img_array[i, j, channel] = ... (channel counted from 0; ignored for grayscale)
WriteLsb(pixel, color, channel, bit) ==
    IF color THEN [pixel EXCEPT ![channel + 1] = SetLsb(@, bit)]
    ELSE [pixel EXCEPT ![1] = SetLsb(@, bit)]

ReadLsb(pixel, color, channel) ==
    IF color THEN Lsb(pixel[channel + 1]) ELSE Lsb(pixel[1])

\* Image.fromarray(array): same size and mode, no file behind it
FromArray(image, px) == [image EXCEPT !.px = px, !.exif = EmptyDict, !.file = FALSE]

\* Ownership of pixel buffers: the caller's image owns InputBuffer; an
\* operation that copies pixels yields FreshBuffer
InputBuffer == "input"
FreshBuffer == "fresh"

\* an array that is a view on the pixels of the image it was built from
np_array_view(image) == InputBuffer

\* np.array(image): a new array holding a copy of the pixels
np_array(image) == FreshBuffer

\* the buffer the embedder of a type writes to and the returned image wraps:
\* np.array(image) for the spatial embedders (Image.fromarray shares it), the
\* array of the converted image for frequency, image.copy() for metadata
OutputBuffer(watermark_type, image) ==
    CASE watermark_type \in {"invisible", "steganography"} -> np_array(image)
      [] watermark_type = "frequency" -> np_array(image)
      [] OTHER -> FreshBuffer

\* the caller's image after the call: it shows the embedder's writes when the
\* embedder wrote to the caller's buffer
CallerImageAfter(watermark_type, image, returned) ==
    IF OutputBuffer(watermark_type, image) = InputBuffer
    THEN [image EXCEPT !.px = returned.px]
    ELSE image

----------------------------------------------------------------------------
(* WatermarkMethods.embed_lsb_with_key.  The loop state is the array, the   *)
(* binary_index (written) and the number of draws made since seeding; a    *)
(* pixel draws only while bits remain.                                     *)

\* a loop body whose generator is one draw ahead of the pixel step
EmbedLsbStepAhead(st, color, binary_data, strength, seed, k) ==
    IF st.written < Len(binary_data)
    THEN IF RandomBelow(seed, st.draws + 1, strength)
         THEN [px |-> [st.px EXCEPT ![k] =
                          WriteLsb(@, color, 2, binary_data[st.written + 1])],
               written |-> st.written + 1, draws |-> st.draws + 1,
               positions |-> Append(st.positions, [pixel |-> k, draw |-> st.draws + 1])]
         ELSE [st EXCEPT !.draws = @ + 1]
    ELSE st

\* the body of the inner loop at pixel (i, j)
EmbedLsbStep(st, color, binary_data, strength, seed, k) ==
    IF st.written < Len(binary_data)
    THEN IF RandomBelow(seed, st.draws, strength)
         THEN [px |-> [st.px EXCEPT ![k] =
                          WriteLsb(@, color, 2, binary_data[st.written + 1])],
               written |-> st.written + 1, draws |-> st.draws + 1,
               positions |-> Append(st.positions, [pixel |-> k, draw |-> st.draws])]
         ELSE [st EXCEPT !.draws = @ + 1]
    ELSE st

\* for j in range(width); the guard on next evaluates the loop state before
\* the next iteration starts
RECURSIVE EmbedLsbCols(_, _, _, _, _, _, _, _)
EmbedLsbCols(st, color, binary_data, strength, seed, width, i, j) ==
    IF j >= width THEN st
    ELSE LET next == EmbedLsbStep(st, color, binary_data, strength, seed,
                                  i * width + j + 1)
         IN  IF next.draws >= 0
             THEN EmbedLsbCols(next, color, binary_data, strength, seed, width, i, j + 1)
             ELSE next

\* for i in range(height)
RECURSIVE EmbedLsbRows(_, _, _, _, _, _, _, _)
EmbedLsbRows(st, color, binary_data, strength, seed, height, width, i) ==
    IF i >= height THEN st
    ELSE LET next == EmbedLsbCols(st, color, binary_data, strength, seed, width, i, 0)
         IN  IF next.draws >= 0
             THEN EmbedLsbRows(next, color, binary_data, strength, seed, height,
                               width, i + 1)
             ELSE next

embed_lsb_with_key(image, binary_data, strength, seed) ==
    EmbedLsbRows([px |-> image.px, written |-> 0, draws |-> 0, positions |-> <<>>],
                 IsColor(image),
                 binary_data, strength, seed, image.h, image.w, 0)

\* max(1, strength // 25)
Redundancy(strength) == Max(1, strength \div RedundancyStep)

\* ''.join(bit * redundancy for bit in binary_data)
Redundant(binary_data, redundancy) ==
    [n \in 1..(Len(binary_data) * redundancy) |-> binary_data[((n - 1) \div redundancy) + 1]]

\* a channel pattern that is one draw ahead of the generator
ChannelPatternAhead(seed, k) == Randint3(seed, k + 1)

\* np.random.randint(0, 3, size=n) right after seeding: element k (from 0)
ChannelPattern(seed, k) == Randint3(seed, k)

\* WatermarkMethods.embed_with_redundancy_and_key
embed_with_redundancy_and_key(image, binary_data, redundancy, seed) ==
    LET redundant_binary == Redundant(binary_data, redundancy)
        n == Len(redundant_binary)
    IN  [px |-> [k \in 1..Len(image.px) |->
                    IF k <= n
                    THEN WriteLsb(image.px[k], IsColor(image),
                                  ChannelPattern(seed, k - 1), redundant_binary[k])
                    ELSE image.px[k]],
         written |-> Min(n, Len(image.px)),
         draws |-> n]

----------------------------------------------------------------------------
(* Extraction.  An extractor returns [data, error, draws]: the (data,      *)
(* error) pair of the code and the number of draws it made after seeding.  *)
(* The error messages of the code are named by their kind.                 *)

InsufficientSelectedPixels == "Not enough pixels selected for extraction"
InvalidLength == "Invalid message length"
UnderrunedStream == "Not enough pixels for full message extraction"
BytesNotAligned == "Message binary length not divisible by 8"
DecryptionFailed == "Could not decrypt signature"
UnknownMethod == "Unknown extraction method"

Failure(error, draws) == [data |-> PyNone, error |-> error, draws |-> draws]
Success(data, draws) == [data |-> data, error |-> NoError, draws |-> draws]

\* a try block that goes to the cipher without the check on the bit count
DecodeMessageUnchecked(key, message_binary, draws) ==
    LET decrypted_data == decrypt(key, BitsToBytes(message_binary))
    IN  IF decrypted_data = InvalidToken THEN Failure(DecryptionFailed, draws)
        ELSE IF JsonLoads(decrypted_data[1]) = PyNone
        THEN Failure(DecryptionFailed, draws)
        ELSE Success(JsonLoads(decrypted_data[1]), draws)

\* the try block shared by both LSB extractors: bytes, decrypt, json.loads
DecodeMessage(key, message_binary, draws) ==
    IF Len(message_binary) % 8 # 0 THEN Failure(BytesNotAligned, draws)
    ELSE LET encrypted_signature == BitsToBytes(message_binary)
             decrypted_data == decrypt(key, encrypted_signature)
         IN  IF decrypted_data = InvalidToken THEN Failure(DecryptionFailed, draws)
             ELSE IF JsonLoads(decrypted_data[1]) = PyNone
             THEN Failure(DecryptionFailed, draws)
             ELSE Success(JsonLoads(decrypted_data[1]), draws)

\* a pixel_indices list that takes every pixel, whatever the strength
PixelIndicesEveryPixel(n, seed, strength) == [k \in 1..n |-> k]

\* the pixel_indices list of _extract_lsb_watermark: one draw for every pixel
PixelIndices(n, seed, strength) ==
    SelectSeq([k \in 1..n |-> k], LAMBDA k : RandomBelow(seed, k - 1, strength))

\* a check that never finds the stream too short
TooFewNever(available, needed) == FALSE

\* len(pixel_indices) < total_bits_needed, len(extracted_bits) < total_bits_needed
TooFew(available, needed) == available < needed

\* the length _extract_lsb_watermark parses from the first 32 selected pixels
LsbMessageLength(image, seed, strength) ==
    LET pixel_indices == PixelIndices(Len(image.px), seed, strength)
    IN  BinToInt([idx \in 1..Min(LengthHeaderBits, Len(pixel_indices)) |->
                     ReadLsb(image.px[pixel_indices[idx]], IsColor(image), 2)])

\* WatermarkProcessor._extract_lsb_watermark
extract_lsb_watermark(image, key, seed, strength) ==
    LET n == Len(image.px)
        pixel_indices == PixelIndices(n, seed, strength)
        lsb(idx) == ReadLsb(image.px[pixel_indices[idx]], IsColor(image), 2)
        message_length == LsbMessageLength(image, seed, strength)
        total_bits_needed == LengthHeaderBits + message_length
        binary_data == [idx \in 1..Min(total_bits_needed, Len(pixel_indices)) |-> lsb(idx)]
        message_binary ==
            SubSeq(binary_data, LengthHeaderBits + 1,
                   Min(LengthHeaderBits + message_length, Len(binary_data)))
    IN  IF Len(pixel_indices) < LengthHeaderBits
        THEN Failure(InsufficientSelectedPixels, n)
        ELSE IF message_length <= 0 THEN Failure(InvalidLength, n)
        ELSE IF message_length > MaxMessageLength THEN Failure(InvalidLength, n)
        ELSE IF TooFew(Len(pixel_indices), total_bits_needed)
        THEN Failure(UnderrunedStream, n)
        ELSE DecodeMessage(key, message_binary, n)

\* the position of the generator when the first pass begins: np.random.seed(seed)
FirstPassStart == 0

\* a second pass that goes on drawing where the first pass stopped
SecondPassContinued(first_count) == first_count

\* the position of the generator when the second pass begins: the extractor
\* seeds it again, whatever the first pass drew
SecondPassStart(first_count) == 0

\* channel = np.random.randint(0, 3) at pixel step k of a pass that began at
\* generator position `start`
PassChannel(seed, start, k) == Randint3(seed, start + k - 1)

\* extracted_bits[k] of a pass of _extract_steganography_watermark: the pass
\* visits the pixels in row-major order and draws the channel of pixel k as
\* draw k - 1 after (re)seeding
ExtractedBit(image, seed, start, k) ==
    ReadLsb(image.px[k], IsColor(image), PassChannel(seed, start, k))

\* len(extracted_bits) after a pass that stops at `limit` bits
PassLength(image, limit) == Min(limit, Len(image.px))

\* a vote that trusts the first copy of the group
MajorityBitFirstCopy(image, seed, start, count, from, redundancy) ==
    IF from <= count THEN ExtractedBit(image, seed, start, from) ELSE 0

\* a vote that reads a tie, and an empty group, as 1
MajorityBitTieOne(image, seed, start, count, from, redundancy) ==
    LET group == { i \in from..(from + redundancy - 1) : i <= count }
        ones == Cardinality({ i \in group : ExtractedBit(image, seed, start, i) = 1 })
        zeros == Cardinality(group) - ones
    IN  IF ones >= zeros THEN 1 ELSE 0

\* '1' if ones > zeros else '0' over extracted_bits[from .. from+redundancy-1],
\* of which `count` bits exist
MajorityBit(image, seed, start, count, from, redundancy) ==
    LET group == { i \in from..(from + redundancy - 1) : i <= count }
        ones == Cardinality({ i \in group : ExtractedBit(image, seed, start, i) = 1 })
        zeros == Cardinality(group) - ones
    IN  IF ones > zeros THEN 1 ELSE 0

\* the tail of _extract_steganography_watermark once the length is known
ExtractSteganographyMessage(image, key, seed, redundancy, message_length) ==
    LET total_bits_needed == (LengthHeaderBits + message_length) * redundancy
        first_count == PassLength(image, LengthHeaderBits * redundancy)
        start == SecondPassStart(first_count)
        count == PassLength(image, total_bits_needed)
        draws == IF IsColor(image) THEN start + count ELSE 0
        message_binary ==
            [i \in 1..message_length |->
                MajorityBit(image, seed, start, count,
                            (LengthHeaderBits + i - 1) * redundancy + 1, redundancy)]
    IN  IF TooFew(count, total_bits_needed) THEN Failure(UnderrunedStream, draws)
        ELSE DecodeMessage(key, message_binary, draws)

\* the length _extract_steganography_watermark votes out of its first pass
SteganographyMessageLength(image, seed, redundancy) ==
    LET first_count == PassLength(image, LengthHeaderBits * redundancy)
    IN  BinToInt([i \in 1..LengthHeaderBits |->
                     MajorityBit(image, seed, FirstPassStart, first_count,
                                 (i - 1) * redundancy + 1, redundancy)])

\* WatermarkProcessor._extract_steganography_watermark
extract_steganography_watermark(image, key, seed, redundancy) ==
    LET first_count == PassLength(image, LengthHeaderBits * redundancy)
        message_length == SteganographyMessageLength(image, seed, redundancy)
    IN  IF message_length <= 0 \/ message_length > MaxMessageLength
        THEN Failure(InvalidLength, IF IsColor(image) THEN first_count ELSE 0)
        ELSE ExtractSteganographyMessage(image, key, seed, redundancy, message_length)

\* a frequency extractor that looks at the image: it detects nothing in a
\* decoded upload
extract_frequency_watermark_inspecting(image, seed) ==
    IF image.file THEN [data |-> PyNone, error |-> "Nothing detected", draws |-> -1]
    ELSE [data |-> [detected |-> TRUE, method |-> "frequency_domain", seed_used |-> seed],
          error |-> NoError, draws |-> -1]

\* WatermarkProcessor._extract_frequency_watermark (the seed stays as it was)
extract_frequency_watermark(image, seed) ==
    [data |-> [detected |-> TRUE, method |-> "frequency_domain", seed_used |-> seed],
     error |-> NoError, draws |-> -1]

\* WatermarkProcessor._extract_metadata_watermark
extract_metadata_watermark(image) ==
    [data |-> IF image.file /\ Truthy(image.exif) THEN image.exif ELSE EmptyDict,
     error |-> NoError, draws |-> -1]

\* WatermarkProcessor.extract_watermark
extract_watermark(image, key, user_key, method, strength) ==
    LET seed == get_seed_from_key(user_key)
    IN  CASE method = "invisible" -> extract_lsb_watermark(image, key, seed, strength)
          [] method = "steganography" ->
                extract_steganography_watermark(image, key, seed, Redundancy(strength))
          [] method = "frequency" -> extract_frequency_watermark(image, seed)
          [] method = "metadata" -> extract_metadata_watermark(image)
          [] OTHER -> [data |-> PyNone, error |-> UnknownMethod, draws |-> -1]

\* the generator after an operation that made `draws` draws (-1: never seeded)
RngAfter(old, seed, draws) == IF draws < 0 THEN old ELSE Seeded(seed, draws)

\* a key check without the guard on an empty record
verify_user_key_unguarded(extracted_data, user_key) ==
    IF "key_hash" \in DOMAIN extracted_data
    THEN extracted_data.key_hash = KeyHashOf(user_key)
    ELSE TRUE

\* WatermarkProcessor.verify_user_key
verify_user_key(extracted_data, user_key) ==
    IF ~Truthy(extracted_data) THEN FALSE
    ELSE IF "key_hash" \in DOMAIN extracted_data
    THEN extracted_data.key_hash = KeyHashOf(user_key)
    ELSE TRUE

----------------------------------------------------------------------------
(* Applying a watermark.  An apply returns [image, digest] as the code     *)
(* does; binary_data, written and draws record what the embedder did.      *)

\* EncryptionService.generate_hash(json.dumps(data, sort_keys=True)): a digest
\* of the record's field values
signature_hash(signature_data) == <<"sha256", signature_data>>

\* image.convert('RGB')
ConvertRGB(image) ==
    IF IsColor(image) THEN image
    ELSE [image EXCEPT !.mode = "RGB",
                       !.px = [k \in 1..Len(image.px) |->
                                  <<image.px[k][1], image.px[k][1], image.px[k][1]>>]]

\* image.copy(): the pixels and info, but a plain in-memory Image
Copy(image) == [image EXCEPT !.file = FALSE]

Clip(v) == IF v < 0 THEN 0 ELSE IF v > 255 THEN 255 ELSE v

\* WatermarkMethods.embed_frequency_domain_with_key: the DCT, the seeded
\* mid-band pattern and the inverse DCT are taken together as a perturbation
\* of every pixel that the generator seeded with combined_seed decides
embed_frequency_domain_with_key(image, text, strength, seed, hs) ==
    LET combined_seed == seed + (StrHash(hs, text) % HashTextModulus)
        delta(k) == (((Mix(combined_seed, k - 1) % 7) - 3) * strength) \div 25
    IN  [px |-> [k \in 1..Len(image.px) |->
                    [c \in 1..3 |-> Clip(image.px[k][c] + delta(k))]],
         written |-> 0, draws |-> Len(image.px), seed |-> combined_seed]

\* return Image.fromarray(modified_array), signature_hash
EmbedResult(image, signature_data, binary_data, seed, modified) ==
    [image |-> FromArray(image, modified.px),
     digest |-> signature_hash(signature_data),
     binary_data |-> binary_data, written |-> modified.written,
     rng |-> Seeded(seed, modified.draws),
     positions |-> IF "positions" \in DOMAIN modified THEN modified.positions ELSE <<>>]

\* WatermarkProcessor._invisible_watermark
invisible_watermark(image, text, user_key, strength, key, iv, now) ==
    LET signature_data == InvisibleSignature(text, now, strength, user_key)
        binary_data == prepare_binary_data(key, iv, signature_data)
        seed == get_seed_from_key(user_key)
    IN  EmbedResult(image, signature_data, binary_data, seed,
                    embed_lsb_with_key(image, binary_data, strength, seed))

\* WatermarkProcessor._steganography_watermark
steganography_watermark(image, text, user_key, strength, key, iv, now) ==
    LET signature_data == SteganographySignature(text, now, user_key)
        binary_data == prepare_binary_data(key, iv, signature_data)
        redundancy == Redundancy(strength)
        seed == get_seed_from_key(user_key)
    IN  EmbedResult(image, signature_data, binary_data, seed,
                    embed_with_redundancy_and_key(image, binary_data, redundancy, seed))

\* WatermarkProcessor._frequency_domain_watermark
frequency_domain_watermark(image, text, user_key, strength, hs, now) ==
    LET signature_data ==
            [text |-> text, timestamp |-> now, method |-> "frequency_domain",
             strength |-> strength, key_hash |-> KeyHashOf(user_key)]
        seed == get_seed_from_key(user_key)
        watermarked == embed_frequency_domain_with_key(ConvertRGB(image), text,
                                                       strength, seed, hs)
    IN  [image |-> FromArray(ConvertRGB(image), watermarked.px),
         digest |-> signature_hash(signature_data),
         binary_data |-> <<>>, written |-> 0,
         rng |-> Seeded(watermarked.seed, watermarked.draws)]

\* WatermarkProcessor._metadata_watermark: the metadata record only feeds the
\* digest; token is what EncryptionService.generate_token() returned
MetadataRecord(text, user_key, strength, token, now) ==
    [Copyright |-> text, Artist |-> text, Description |-> now,
     Software |-> "ImageProtector", Protection_Level |-> strength,
     KeyHash |-> KeyHashOf(user_key), Signature |-> token]

metadata_watermark(image, text, user_key, strength, token, now, oldrng) ==
    LET metadata == MetadataRecord(text, user_key, strength, token, now)
    IN  [image |-> Copy(image),
         digest |-> signature_hash(metadata),
         binary_data |-> <<>>, written |-> 0,
         rng |-> oldrng]

\* WatermarkProcessor.apply_watermark for the four known types; rnd is the
\* value the call draws from the operating system (Fernet's iv, or the token)
apply_watermark(image, text, user_key, watermark_type, strength, key, hs, rnd, now, oldrng) ==
    CASE watermark_type = "invisible" ->
            invisible_watermark(image, text, user_key, strength, key, rnd, now)
      [] watermark_type = "steganography" ->
            steganography_watermark(image, text, user_key, strength, key, rnd, now)
      [] watermark_type = "frequency" ->
            frequency_domain_watermark(image, text, user_key, strength, hs, now)
      [] watermark_type = "metadata" ->
            metadata_watermark(image, text, user_key, strength, rnd, now, oldrng)
      [] OTHER ->
            \* raise ValueError(f"Unknown watermark type: {watermark_type}"),
            \* logged and raised again by the except clause
            [raised |-> "ValueError", image |-> image, rng |-> oldrng]

----------------------------------------------------------------------------
(* POST /images/verify (routes.verify_watermark), after the upload and the *)
(* user key were accepted.  calls lists the extract_watermark calls made.  *)

Found(result) == Truthy(result.data) /\ result.error = NoError

\* a list of alternatives that is walked from its other end
AltMethodsReversed(method) ==
    SelectSeq(<<"metadata", "frequency", "steganography", "invisible">>,
              LAMBDA m : m # method)

\* extraction_methods = [...]; extraction_methods.remove(method)
AltMethods(method) ==
    SelectSeq(<<"invisible", "steganography", "frequency", "metadata">>,
              LAMBDA m : m # method)

RECURSIVE AltLoop(_, _, _, _, _, _)
AltLoop(image, key, user_key, strength, methods, calls) ==
    IF methods = <<>>
    THEN [outcome |-> "absent", hasWatermark |-> FALSE, isValidKey |-> FALSE,
          details |-> PyNone, calls |-> calls]
    ELSE LET alt_method == Head(methods)
             alt == extract_watermark(image, key, user_key, alt_method, strength)
             made == Append(calls, [method |-> alt_method, result |-> alt])
         IN  IF Found(alt) /\ verify_user_key(alt.data, user_key)
             THEN [outcome |-> "verified", hasWatermark |-> TRUE, isValidKey |-> TRUE,
                   details |-> alt.data, calls |-> made]
             ELSE AltLoop(image, key, user_key, strength, Tail(methods), made)

KnownMethods == {"invisible", "steganography", "frequency", "metadata"}

verify_watermark(image, key, user_key, method, strength) ==
    LET first == extract_watermark(image, key, user_key, method, strength)
        calls == <<[method |-> method, result |-> first]>>
    IN  IF Found(first)
        THEN IF verify_user_key(first.data, user_key)
             THEN [outcome |-> "verified", hasWatermark |-> TRUE, isValidKey |-> TRUE,
                   details |-> first.data, calls |-> calls]
             ELSE [outcome |-> "foreign", hasWatermark |-> TRUE, isValidKey |-> FALSE,
                   details |-> PyNone, calls |-> calls]
        ELSE IF method \notin KnownMethods
        THEN \* list.remove raises ValueError: the handler answers 500
             [outcome |-> "error", hasWatermark |-> FALSE, isValidKey |-> FALSE,
              details |-> PyNone, calls |-> calls]
        ELSE AltLoop(image, key, user_key, strength, AltMethods(method), calls)

\* the generator after the calls of one request
RECURSIVE RngAfterCalls(_, _, _)
RngAfterCalls(old, user_key, calls) ==
    IF calls = <<>> THEN old
    ELSE RngAfterCalls(RngAfter(old, get_seed_from_key(user_key), Head(calls).result.draws),
                       user_key, Tail(calls))

----------------------------------------------------------------------------
(* State *)

NoEmbed == [modality |-> "none"]
NoPrev == [present |-> FALSE]
NoExtract == [method |-> "none"]
NoVerify == [outcome |-> "none"]
NoKeyCheck == [called |-> FALSE]
Threads == {1, 2}
Idle == [pc |-> "idle"]
NoFrame == [stage |-> "none"]
NoResponse == [status |-> 0]
NoCapacity == [stage |-> "none"]

\* the generator of a fresh process is seeded from the operating system
EntropySeed == 7

Init ==
    /\ cipherKey \in CipherKeys
    /\ hashSeed \in HashSeeds
    /\ rng = Seeded(EntropySeed, 0)
    /\ input \in Images
    /\ img = input
    /\ emb = NoEmbed
    /\ prev = NoPrev
    /\ flips = {}
    /\ ext = NoExtract
    /\ ver = NoVerify
    /\ vk = NoKeyCheck
    /\ thr = [t \in Threads |-> Idle]
    /\ fr = NoFrame
    /\ resp = NoResponse
    /\ cap = NoCapacity
    /\ gen = {}

\* the client uploads an image that no apply produced
Upload(image) ==
    /\ input' = image
    /\ img' = image
    /\ emb' = NoEmbed
    /\ prev' = NoPrev
    /\ flips' = {}
    /\ ext' = NoExtract
    /\ ver' = NoVerify
    /\ vk' = NoKeyCheck
    /\ UNCHANGED <<cap, gen, cipherKey, hashSeed, rng, thr, fr, resp>>

EmbedRecord(image, text, user_key, modality, strength, now, rnd, key, out) ==
    [modality |-> modality, user_key |-> user_key, text |-> text, now |-> now,
     strength |-> strength, key |-> key, rnd |-> rnd,
     binary_data |-> out.binary_data, written |-> out.written,
     out |-> out.image, digest |-> out.digest,
     signature_json |-> IF modality \in {"invisible", "steganography"}
                        THEN json_dumps(SignatureKeys(modality), FALSE) ELSE NoJson,
     hashed_json |-> json_dumps(SignatureKeys(modality), TRUE),
     given |-> image, buffer |-> OutputBuffer(modality, image),
     positions |-> IF "positions" \in DOMAIN out THEN out.positions ELSE <<>>]

\* watermark_processor.apply_watermark(image, text, user_key, type, strength)
\* on the uploaded image at hand
ApplyCall(text, user_key, modality, strength, now, rnd) ==
    /\ emb.modality = "none"
    /\ \E out \in {apply_watermark(img, text, user_key, modality, strength,
                                   cipherKey, hashSeed, rnd, now, rng)} :
           /\ img' = out.image
           /\ emb' = IF "raised" \in DOMAIN out
                     THEN [modality |-> "none", raised |-> out.raised,
                           watermark_type |-> modality]
                     ELSE EmbedRecord(img, text, user_key, modality, strength, now, rnd,
                                      cipherKey, out)
           /\ rng' = out.rng
           /\ input' = CallerImageAfter(modality, img, out.image)
    /\ prev' = NoPrev
    /\ flips' = {}
    /\ ext' = NoExtract
    /\ ver' = NoVerify
    /\ vk' = NoKeyCheck
    /\ UNCHANGED <<cap, gen, cipherKey, hashSeed, thr, fr>>

Apply(text, user_key, modality, strength, now, rnd) ==
    /\ ApplyCall(text, user_key, modality, strength, now, rnd)
    /\ UNCHANGED resp

\* RequestValidator.validate_watermark_params on the form fields type and
\* strength (an integer): the list of errors
StrengthOutOfRange == "Strength must be between 0 and 100"
InvalidWatermarkType == "Invalid watermark type"

validate_watermark_params(type, strength) ==
    (IF strength < 0 \/ strength > 100 THEN <<StrengthOutOfRange>> ELSE <<>>)
    \o (IF type \notin {"invisible", "steganography", "frequency", "metadata"}
        THEN <<InvalidWatermarkType>> ELSE <<>>)

\* POST /images/watermark with the image at hand, a user key and the form
\* fields text, type and strength
ApplyRequest(text, user_key, type, strength, now, rnd) ==
    /\ emb.modality = "none"
    /\ \E param_errors \in {validate_watermark_params(type, strength)} :
           IF param_errors # <<>>
           THEN /\ resp' = [status |-> 400, error |-> param_errors,
                            type |-> type, strength |-> strength]
                /\ UNCHANGED <<cap, gen, cipherKey, hashSeed, rng, input, img, emb, prev, flips,
                               ext, ver, vk, thr, fr>>
           ELSE /\ ApplyCall(text, user_key, type, strength, now, rnd)
                /\ resp' = [status |-> 200, error |-> <<>>,
                            type |-> type, strength |-> strength]

\* the caller repeats its last apply: same image, text, secret, type, strength
\* and timestamp
Reapply(rnd) ==
    /\ emb.modality # "none"
    /\ ~prev.present
    /\ \E out \in {apply_watermark(input, emb.text, emb.user_key, emb.modality,
                                   emb.strength, cipherKey, hashSeed, rnd, emb.now, rng)} :
           /\ img' = out.image
           /\ emb' = EmbedRecord(input, emb.text, emb.user_key, emb.modality,
                                 emb.strength, emb.now, rnd, cipherKey, out)
           /\ prev' = [present |-> TRUE, out |-> emb.out, digest |-> emb.digest,
                       key |-> emb.key]
           /\ rng' = out.rng
           /\ input' = CallerImageAfter(emb.modality, input, out.image)
    /\ flips' = {}
    /\ ext' = NoExtract
    /\ ver' = NoVerify
    /\ vk' = NoKeyCheck
    /\ UNCHANGED <<cap, gen, cipherKey, hashSeed, thr, fr, resp>>

\* the service restarts (or another process takes over): WatermarkProcessor()
\* builds an EncryptionService with a freshly generated key
\* (the results of the old process's calls are gone with it)
Restart(key, hs) ==
    /\ <<key, hs>> # <<cipherKey, hashSeed>>
    /\ cipherKey' = key
    /\ hashSeed' = hs
    /\ rng' = Seeded(EntropySeed, 0)
    /\ ext' = NoExtract
    /\ ver' = NoVerify
    /\ vk' = NoKeyCheck
    /\ UNCHANGED <<cap, gen, input, img, emb, prev, flips, thr, fr, resp>>

\* watermark_processor.extract_watermark(img, user_key, method, strength)
Extract(user_key, method, strength) ==
    \E result \in {extract_watermark(img, cipherKey, user_key, method, strength)} :
        /\ ext' = [user_key |-> user_key, method |-> method, strength |-> strength,
                   key |-> cipherKey, data |-> result.data, error |-> result.error]
        /\ rng' = RngAfter(rng, get_seed_from_key(user_key), result.draws)
        /\ ver' = NoVerify
        /\ vk' = NoKeyCheck
        /\ UNCHANGED <<cap, gen, cipherKey, hashSeed, input, img, emb, prev, flips, thr, fr,
                       resp>>

\* POST /images/verify with the image at hand
Verify(user_key, method, strength) ==
    \E answer \in {verify_watermark(img, cipherKey, user_key, method, strength)} :
        /\ ver' = [user_key |-> user_key, method |-> method, strength |-> strength,
                   key |-> cipherKey,
                   outcome |-> answer.outcome, hasWatermark |-> answer.hasWatermark,
                   isValidKey |-> answer.isValidKey, details |-> answer.details,
                   calls |-> [i \in 1..Len(answer.calls) |->
                                 [method |-> answer.calls[i].method,
                                  data |-> answer.calls[i].result.data,
                                  error |-> answer.calls[i].result.error]]]
        /\ rng' = RngAfterCalls(rng, user_key, answer.calls)
        /\ ext' = NoExtract
        /\ vk' = NoKeyCheck
        /\ UNCHANGED <<cap, gen, cipherKey, hashSeed, input, img, emb, prev, flips, thr, fr,
                       resp>>

\* watermark_processor.verify_user_key(record, user_key) on the record the
\* last extraction returned
VerifyKey(user_key) ==
    /\ ext.method # "none"
    /\ ext.data # PyNone
    /\ vk' = [called |-> TRUE, record |-> ext.data, user_key |-> user_key,
              result |-> verify_user_key(ext.data, user_key)]
    /\ UNCHANGED <<cap, gen, cipherKey, hashSeed, rng, input, img, emb, prev, flips, ext, ver,
                   thr, fr, resp>>

\* where bit k of the embedded stream was written: <<pixel, channel>>
EmbeddedPosition(k) ==
    LET seed == get_seed_from_key(emb.user_key)
    IN  IF emb.modality = "invisible"
        THEN <<PixelIndices(Len(img.px), seed, emb.strength)[k], 2>>
        ELSE <<k, ChannelPattern(seed, k - 1)>>

\* frame bits whose embedded copies the attacker may flip: a set bit of the
\* length header and the last bit of the token's first byte
TamperBits == {27, 40}

\* the positions of the embedded stream that carry a copy of a tamper bit
TamperPositions ==
    IF emb.modality \notin {"invisible", "steganography"} THEN {}
    ELSE LET r == IF emb.modality = "steganography" THEN Redundancy(emb.strength) ELSE 1
         IN  { k \in 1..emb.written : ((k - 1) \div r) + 1 \in TamperBits }

\* an attacker flips the LSB that carries bit k of the embedded stream
Flip(k) ==
    /\ emb.modality \in {"invisible", "steganography"}
    /\ k \in TamperPositions
    /\ k \notin flips
    /\ Cardinality(flips) < MaxFlips
    /\ LET at == EmbeddedPosition(k)
           bit == ReadLsb(img.px[at[1]], IsColor(img), at[2])
       IN  img' = [img EXCEPT !.px[at[1]] = WriteLsb(@, IsColor(img), at[2], 1 - bit)]
    /\ flips' = flips \cup {k}
    /\ ext' = NoExtract
    /\ ver' = NoVerify
    /\ vk' = NoKeyCheck
    /\ UNCHANGED <<cap, gen, cipherKey, hashSeed, rng, input, emb, prev, thr, fr, resp>>

\* the frame bit that position k of the embedded stream carries a copy of
FrameBitOf(k) ==
    LET r == IF emb.modality = "steganography" THEN Redundancy(emb.strength) ELSE 1
    IN  ((k - 1) \div r) + 1

\* the positions of the embedded stream that carry ciphertext: every embedded
\* LSB after the length prefix
CipherPositions ==
    IF emb.modality \notin {"invisible", "steganography"} THEN {}
    ELSE { k \in 1..emb.written : FrameBitOf(k) > LengthHeaderBits }

\* an attacker flips one embedded LSB of the ciphertext, and no other
FlipCipherBit(k) ==
    /\ emb.modality \in {"invisible", "steganography"}
    /\ k \in CipherPositions
    /\ flips = {}
    /\ LET at == EmbeddedPosition(k)
           bit == ReadLsb(img.px[at[1]], IsColor(img), at[2])
       IN  img' = [img EXCEPT !.px[at[1]] = WriteLsb(@, IsColor(img), at[2], 1 - bit)]
    /\ flips' = {k}
    /\ ext' = NoExtract
    /\ ver' = NoVerify
    /\ vk' = NoKeyCheck
    /\ UNCHANGED <<cap, gen, cipherKey, hashSeed, rng, input, emb, prev, thr, fr, resp>>

\* the low bits of the length header, whose embedded copies an attacker may
\* flip to have another length parsed
HeaderTamperBits == 27..32

HeaderPositions ==
    IF emb.modality \notin {"invisible", "steganography"} THEN {}
    ELSE { k \in 1..emb.written : FrameBitOf(k) \in HeaderTamperBits }

\* an attacker flips the LSB that carries a low bit of the length header
FlipHeaderBit(k) ==
    /\ emb.modality \in {"invisible", "steganography"}
    /\ k \in HeaderPositions
    /\ k \notin flips
    /\ Cardinality(flips) < MaxFlips
    /\ LET at == EmbeddedPosition(k)
           bit == ReadLsb(img.px[at[1]], IsColor(img), at[2])
       IN  img' = [img EXCEPT !.px[at[1]] = WriteLsb(@, IsColor(img), at[2], 1 - bit)]
    /\ flips' = flips \cup {k}
    /\ ext' = NoExtract
    /\ ver' = NoVerify
    /\ vk' = NoKeyCheck
    /\ UNCHANGED <<cap, gen, cipherKey, hashSeed, rng, input, emb, prev, thr, fr, resp>>

----------------------------------------------------------------------------
(* Two requests served by threads of one process.  Each runs the seeding   *)
(* and the draws of embed_lsb_with_key / _extract_lsb_watermark as steps   *)
(* on numpy's global generator (numpy serialises the single calls).        *)

\* np.random.seed(seed) of the operation thread t starts
OpSeed(t, user_key) ==
    /\ thr[t].pc = "idle"
    /\ rng' = Seeded(get_seed_from_key(user_key), 0)
    /\ thr' = [thr EXCEPT ![t] = [pc |-> "drawing",
                                  seed |-> get_seed_from_key(user_key), obs |-> <<>>]]
    /\ UNCHANGED <<cap, gen, cipherKey, hashSeed, input, img, emb, prev, flips, ext, ver, vk,
                   fr, resp>>

\* np.random.random() of the loop of thread t
OpDraw(t) ==
    /\ thr[t].pc = "drawing"
    /\ Len(thr[t].obs) < MaxDraws
    /\ rng' = Seeded(rng.seed, rng.pos + 1)
    /\ thr' = [thr EXCEPT ![t].obs = Append(@, Mix(rng.seed, rng.pos)),
                          ![t].pc = IF Len(thr[t].obs) + 1 = MaxDraws
                                    THEN "done" ELSE "drawing"]
    /\ UNCHANGED <<cap, gen, cipherKey, hashSeed, input, img, emb, prev, flips, ext, ver, vk,
                   fr, resp>>

\* the operation of thread t returns
OpReturn(t) ==
    /\ thr[t].pc = "done"
    /\ thr' = [thr EXCEPT ![t] = Idle]
    /\ UNCHANGED <<cap, gen, cipherKey, hashSeed, rng, input, img, emb, prev, flips, ext, ver,
                   vk, fr, resp>>

----------------------------------------------------------------------------
(* Framing and parsing of a token on its own *)

FrameBytes == {0, 1, 128, 255}

RECURSIVE TokensOfLength(_)
TokensOfLength(n) ==
    IF n = 0 THEN {<<>>}
    ELSE { Append(t, b) : t \in TokensOfLength(n - 1), b \in FrameBytes }

\* _prepare_binary_data on the bytes the cipher returned
Frame(token) ==
    /\ fr' = [stage |-> "framed", token |-> token, frame |-> FramePayload(token)]
    /\ UNCHANGED <<cap, gen, cipherKey, hashSeed, rng, input, img, emb, prev, flips, ext, ver,
                   vk, thr, resp>>

\* the extractor's parse of the frame at hand
Parse ==
    /\ fr.stage = "framed"
    /\ \E parsed \in {ParseFrame(fr.frame)} :
           fr' = [stage |-> "parsed", token |-> fr.token, frame |-> fr.frame,
                  message_length |-> parsed.message_length, bytes |-> parsed.bytes]
    /\ UNCHANGED <<cap, gen, cipherKey, hashSeed, rng, input, img, emb, prev, flips, ext, ver,
                   vk, thr, resp>>

----------------------------------------------------------------------------
(* An apply and the owner's extract on a large image, followed by the       *)
(* lengths alone: the text is ASCII and needs no escaping, the embedder     *)
(* writes every pixel it visits (steganography, or invisible at strength    *)
(* 100, where random() < 1.0 always holds) and the extractor reads the      *)
(* header it wrote.                                                         *)

\* len(str(n)) of a natural number below 10000
Digits(n) == IF n < 10 THEN 1 ELSE IF n < 100 THEN 2 ELSE IF n < 1000 THEN 3 ELSE 4

\* len(json.dumps(signature_data)): the keys, punctuation, a 26-character
\* timestamp, the method name and the 16-character key_hash (and checksum)
\* take 150 (invisible) or 146 (steganography) characters
SignatureJsonLength(modality, text_length, width, height, strength) ==
    IF modality = "invisible"
    THEN 150 + text_length + (Digits(width) + 1 + Digits(height)) + Digits(strength)
    ELSE 146 + text_length

\* len(base64.urlsafe_b64encode(raw)) of raw_length bytes
Base64Length(raw_length) == 4 * ((raw_length + 2) \div 3)

\* len(signature_binary) in _prepare_binary_data: eight bits for every
\* character of the token Fernet.encrypt returns
SignatureBinaryLength(plain_length) ==
    8 * Base64Length(FernetTokenLength(plain_length))

\* bits the embedder writes of a frame of frame_bits bits into `pixels` pixels
LongWritten(modality, strength, frame_bits, pixels) ==
    IF modality = "steganography"
    THEN Min(Redundancy(strength) * frame_bits, pixels)
    ELSE Min(frame_bits, pixels)

\* the error of the extractor on a result whose header holds message_length
LongExtractError(modality, strength, message_length, pixels) ==
    LET r == IF modality = "steganography" THEN Redundancy(strength) ELSE 1
    IN  IF message_length <= 0 \/ message_length > MaxMessageLength THEN InvalidLength
        ELSE IF TooFew(pixels, (LengthHeaderBits + message_length) * r)
        THEN UnderrunedStream
        ELSE NoError

ApplyLong(text_length, modality, strength, side) ==
    /\ modality = "invisible" => strength = 100
    /\ \E message_bits \in {SignatureBinaryLength(
                               SignatureJsonLength(modality, text_length, side, side,
                                                   strength))} :
           cap' = [stage |-> "embedded", modality |-> modality, strength |-> strength,
                   text_length |-> text_length, pixels |-> side * side,
                   message_bits |-> message_bits,
                   written |-> LongWritten(modality, strength,
                                           LengthHeaderBits + message_bits, side * side),
                   error |-> NoError]
    /\ UNCHANGED <<cipherKey, hashSeed, rng, input, img, emb, prev, flips, ext, ver, vk,
                   thr, fr, resp, gen>>

ExtractLong ==
    /\ cap.stage = "embedded"
    /\ cap' = [cap EXCEPT !.stage = "extracted",
                          !.error = LongExtractError(cap.modality, cap.strength,
                                                     cap.message_bits, cap.pixels)]
    /\ UNCHANGED <<cipherKey, hashSeed, rng, input, img, emb, prev, flips, ext, ver, vk,
                   thr, fr, resp, gen>>

----------------------------------------------------------------------------
(* WatermarkProcessor.generate_user_key.  The bytes come from numpy's       *)
(* process-wide generator, whose state the last seeding operation left; in *)
(* a process that has not seeded it yet they come from the OS entropy the  *)
(* generator started with, which is any of OsEntropy.                      *)

OsEntropy == 1..NumEntropy

\* np.random.bytes(32) of a generator in `state`
RandomBytes(state) == <<Mix(state.seed, state.pos), Mix(state.seed, state.pos + 1)>>

\* hashlib.sha256(random_bytes).hexdigest(): the digest of these bytes
Sha256Hex(bytes) == [sha256 |-> bytes]

GenerateUserKey ==
    /\ Cardinality(gen) < MaxGenerated
    /\ \E entropy \in OsEntropy :
           LET state == IF rng.seed = EntropySeed
                        THEN Seeded(EntropySeed * entropy, rng.pos) ELSE rng
               random_bytes == RandomBytes(state)
               user_key == Sha256Hex(random_bytes)
           IN  gen' = gen \cup
                   {[process |-> <<cipherKey, hashSeed>>,
                     state |-> rng,
                     applied |-> IF emb.modality = "none" THEN [modality |-> "none"]
                                 ELSE [modality |-> emb.modality, user_key |-> emb.user_key,
                                       strength |-> emb.strength,
                                       h |-> emb.given.h, w |-> emb.given.w],
                     extracted |-> IF ext.method = "none" THEN [method |-> "none"]
                                   ELSE [method |-> ext.method, user_key |-> ext.user_key,
                                         strength |-> ext.strength],
                     key |-> user_key]}
    /\ rng' = Seeded(rng.seed, rng.pos + 1)
    /\ UNCHANGED <<cipherKey, hashSeed, input, img, emb, prev, flips, ext, ver, vk,
                   thr, fr, resp, cap>>

----------------------------------------------------------------------------
(* Specifications *)

LsbModalities == {"invisible", "steganography"}
CodecSecrets == {"hunter2", "hunter3"}

\* the strength an extraction is asked with: the one of the apply, when the
\* image at hand comes from an apply
ExtractStrengths == IF emb.modality = "none" THEN Strengths ELSE {emb.strength}

\* The codec: apply and extract of the two LSB modalities, across restarts
InitCodec == Init /\ cipherKey = 1 /\ hashSeed = 1

NextCodec ==
    \/ \E text \in Texts, user_key \in CodecSecrets,
          modality \in LsbModalities, strength \in Strengths, rnd \in IVs :
            Apply(text, user_key, modality, strength, 0, rnd)
    \/ \E user_key \in CodecSecrets, method \in LsbModalities,
          strength \in ExtractStrengths :
            Extract(user_key, method, strength)
    \/ \E key \in CipherKeys : emb.modality # "none" /\ Restart(key, hashSeed)

Spec == InitCodec /\ [][NextCodec]_vars

\* Tampering: an attacker flips embedded LSBs of a steganography result
\* before the owner extracts
NextTamper ==
    \/ \E text \in Texts, user_key \in CodecSecrets, strength \in Strengths, rnd \in IVs :
            Apply(text, user_key, "steganography", strength, 0, rnd)
    \/ \E k \in TamperPositions : Flip(k)
    \/ \E strength \in ExtractStrengths :
            emb.modality # "none" /\ Extract(emb.user_key, "steganography", strength)

SpecTamper == InitCodec /\ [][NextTamper]_vars

\* Tampering with the ciphertext: an attacker flips one embedded ciphertext
\* LSB of an invisible or steganography result before the owner extracts
CipherTamperStrengths == {25, 50, 100}

NextCipherTamper ==
    \/ \E modality \in LsbModalities, strength \in CipherTamperStrengths :
            Apply("hi", "hunter2", modality, strength, 0, 0)
    \/ \E k \in CipherPositions : FlipCipherBit(k)
    \/ \E strength \in ExtractStrengths :
            emb.modality # "none" /\ Extract(emb.user_key, emb.modality, strength)

SpecCipherTamper == InitCodec /\ [][NextCipherTamper]_vars

\* Lengths: the extractors on uploads, on results of apply and on results
\* whose length header an attacker changed
LengthStrengths == {25, 50, 75}

NextLength ==
    \/ \E modality \in LsbModalities, strength \in LengthStrengths :
            Apply("hi", "hunter2", modality, strength, 0, 0)
    \/ \E k \in HeaderPositions : FlipHeaderBit(k)
    \/ \E method \in LsbModalities, strength \in ExtractStrengths :
            Extract("hunter2", method, strength)

SpecLength == InitCodec /\ [][NextLength]_vars

\* Requests: the apply route, the processor's apply, the extractor and the
\* verify route, asked with known and unknown types and with strengths inside
\* and outside 0..100
RequestImages == { image \in Images : image.mode = "RGB" /\ image.w <= 8 }
RequestStrengths == {-5, 100, 150}
RequestTypes == {"invisible", "steganography", "visible"}

InitRequests == InitCodec /\ input \in RequestImages

NextRequests ==
    \/ \E type \in RequestTypes, strength \in RequestStrengths :
            ApplyRequest("hi", "hunter2", type, strength, 0, 0)
    \/ \E type \in RequestTypes : Apply("hi", "hunter2", type, 100, 0, 0)
    \/ \E method \in RequestTypes, strength \in RequestStrengths :
            Extract("hunter2", method, strength)
    \/ \E method \in RequestTypes, strength \in RequestStrengths :
            Verify("hunter2", method, strength)

SpecRequests == InitRequests /\ [][NextRequests]_vars

\* Verification: the four modalities, the extractors, the key check and the
\* verify route, on uploads and on results of apply
VerifyImages == { image \in Images : image.h = 8 \/ Truthy(image.exif) }
VerifyStrengths == {50, 100}
RequestMethods == Modalities \cup {"visible"}

InitVerify == InitCodec /\ input \in VerifyImages

NextVerify ==
    \/ \E modality \in Modalities, strength \in VerifyStrengths :
            Apply("hi", "hunter2", modality, strength, 0, 0)
    \/ \E user_key \in CodecSecrets, method \in RequestMethods,
          strength \in ExtractStrengths \cap VerifyStrengths :
            Extract(user_key, method, strength)
    \/ \E user_key \in CodecSecrets, method \in RequestMethods,
          strength \in ExtractStrengths \cap VerifyStrengths :
            Verify(user_key, method, strength)
    \/ \E user_key \in Secrets : VerifyKey(user_key)

SpecVerify == InitVerify /\ [][NextVerify]_vars

\* Repetition: the caller repeats an apply, on the same process or after
\* another one took over
NextRepeat ==
    \/ \E text \in Texts, user_key \in CodecSecrets, modality \in Modalities,
          strength \in Strengths, now \in Times, rnd \in IVs :
            Apply(text, user_key, modality, strength, now, rnd)
    \/ \E rnd \in IVs : Reapply(rnd)
    \/ \E key \in CipherKeys, hs \in HashSeeds :
            emb.modality # "none" /\ ~prev.present /\ Restart(key, hs)

SpecRepeat == InitCodec /\ [][NextRepeat]_vars

\* Strength mismatch: the owner extracts an invisible watermark with any
\* strength, on the processor that embedded it
MismatchSecrets == {"hunter2", "hunter34"}

NextMismatch ==
    \/ \E text \in Texts, user_key \in MismatchSecrets, strength \in Strengths, rnd \in IVs :
            Apply(text, user_key, "invisible", strength, 0, rnd)
    \/ \E strength \in Strengths :
            emb.modality # "none" /\ Extract(emb.user_key, "invisible", strength)

SpecMismatch == InitCodec /\ [][NextMismatch]_vars

\* Concurrency: two threads run operations on the process's generator
NextThreads ==
    \/ \E t \in Threads, user_key \in Secrets : OpSeed(t, user_key)
    \/ \E t \in Threads : OpDraw(t)
    \/ \E t \in Threads : OpReturn(t)

SpecThreads == InitCodec /\ [][NextThreads]_vars

\* Framing: tokens of up to MaxTokenBytes bytes are framed and parsed
NextFrame ==
    \/ \E n \in 0..MaxTokenBytes : \E token \in TokensOfLength(n) : Frame(token)
    \/ Parse

SpecFrame == InitCodec /\ [][NextFrame]_vars

\* applies of long texts to large images and the owner's extraction
MinLongText == 9140
MaxLongText == 9180
LargeSides == {512, 1024}
LongModalities == {"invisible", "steganography"}
LongStrengths == {25, 50, 100}

NextCapacity ==
    \/ \E text_length \in MinLongText..MaxLongText, modality \in LongModalities,
          strength \in LongStrengths, side \in LargeSides :
            ApplyLong(text_length, modality, strength, side)
    \/ ExtractLong

SpecCapacity == InitCodec /\ [][NextCapacity]_vars

\* keys generated after applies and extractions, in one process and the next
GenerateImages == { image \in Images : image.h = 8 /\ IsColor(image) }
GenerateStrengths == {100}

InitGenerate == InitCodec /\ input \in GenerateImages

NextGenerate ==
    \/ \E image \in GenerateImages : Upload(image)
    \/ \E user_key \in CodecSecrets, modality \in LsbModalities,
          strength \in GenerateStrengths :
            Apply("hi", user_key, modality, strength, 0, 0)
    \/ emb.modality # "none" /\ Extract(emb.user_key, emb.modality, emb.strength)
    \/ GenerateUserKey
    \/ \E key \in CipherKeys : Restart(key, hashSeed)

SpecGenerate == InitGenerate /\ [][NextGenerate]_vars

----------------------------------------------------------------------------
(* Properties of the codec *)

\* the signature record the last apply encrypted and embedded
EmbeddedRecord ==
    IF emb.modality = "invisible"
    THEN InvisibleSignature(emb.text, emb.now, emb.strength, emb.user_key)
    ELSE SteganographySignature(emb.text, emb.now, emb.user_key)

\* the number of bits the embedder had to write
StreamLength ==
    IF emb.modality = "steganography"
    THEN Len(emb.binary_data) * Redundancy(emb.strength)
    ELSE Len(emb.binary_data)

\* the last request extracted from the untouched result of an LSB apply with
\* the modality and strength of that apply
ExtractedAsEmbedded ==
    /\ emb.modality \in LsbModalities
    /\ ext.method = emb.modality
    /\ ext.strength = emb.strength
    /\ flips = {}

\* the extraction returned a record, with no error, that carries text and key
Recovered(text, user_key) ==
    /\ ext.error = NoError
    /\ ext.data # PyNone
    /\ "text" \in DOMAIN ext.data
    /\ ext.data.text = text
    /\ ext.data.key_hash = KeyHashOf(user_key)

\* C1 (as claimed): spatial round trip.  For every secret, text, strength in
\* {10,25,50,75,100} and image with H*W >= 100*|payload bits|/s, extracting
\* with method 'invisible', the same secret and strength, on the same
\* processor, from the image apply returned gives a record with the text and
\* the key hash of the secret.
C1_SpatialRoundTrip ==
    ( /\ ExtractedAsEmbedded
      /\ emb.modality = "invisible"
      /\ ext.user_key = emb.user_key
      /\ ext.key = emb.key
      /\ emb.strength \in {10, 25, 50, 75, 100}
      /\ input.h * input.w * emb.strength >= 100 * Len(emb.binary_data) )
    => Recovered(emb.text, emb.user_key)

\* C2 (as claimed): key binding.  Extracting with a secret whose seed differs
\* from that of the embedding secret, with the modality and strength of the
\* apply, never returns a record.
C2_KeyBinding ==
    ( /\ ExtractedAsEmbedded
      /\ get_seed_from_key(ext.user_key) # get_seed_from_key(emb.user_key) )
    => ext.data = PyNone

\* C3 (as claimed): any processor instance holding the secret recovers a
\* completely embedded watermark, given the same secret, modality and strength.
C3_AnyInstanceRecovers ==
    ( /\ ExtractedAsEmbedded
      /\ emb.written = StreamLength
      /\ ext.user_key = emb.user_key )
    => Recovered(emb.text, emb.user_key)

\* C4 (as claimed): capacity bound.  An apply that reports success has written
\* the whole framed payload, and its payload has no more bits than
\* floor(s*H*W/100) (a larger one is answered with CapacityExceeded).
C4_CapacityBound ==
    (emb.modality \in LsbModalities)
    => /\ emb.written = StreamLength
       /\ (emb.modality = "invisible"
           => Len(emb.binary_data) <= (emb.strength * input.h * input.w) \div 100)

----------------------------------------------------------------------------
(* Properties of tampered steganography results *)

\* the owner extracted from a completely embedded steganography result on the
\* processor that embedded it, with the secret and strength of the apply
OwnerExtractedRedundant ==
    /\ emb.modality = "steganography"
    /\ emb.written = StreamLength
    /\ ext.method = "steganography"
    /\ ext.user_key = emb.user_key
    /\ ext.strength = emb.strength
    /\ ext.key = emb.key

\* C6 (as claimed): majority-vote resilience.  After a steganography embed
\* with redundancy r, flipping at most floor(r/2) of the embedded LSB positions
\* does not change the result of extraction: the original record is returned.
C6_ResilientToHalf ==
    (OwnerExtractedRedundant /\ Cardinality(flips) <= Redundancy(emb.strength) \div 2)
    => (ext.error = NoError /\ ext.data = EmbeddedRecord)

\* C6 (amended): flipping at most floor((r-1)/2) of the embedded LSB positions
\* does not change the result of extraction (a tie of the vote reads as 0, so
\* half of the copies of a 1 bit are enough to lose it).
C6_ResilientToMinority ==
    (OwnerExtractedRedundant
     /\ Cardinality(flips) <= (Redundancy(emb.strength) - 1) \div 2)
    => (ext.error = NoError /\ ext.data = EmbeddedRecord)

\* C6 witness: one copy of a bit was flipped in a result of redundancy 3 or 4
\* and the extraction still returns the original record
C6_Witness ==
    /\ OwnerExtractedRedundant
    /\ Redundancy(emb.strength) >= 3
    /\ Cardinality(flips) = 1
    /\ ext.error = NoError
    /\ ext.data = EmbeddedRecord

----------------------------------------------------------------------------
(* Properties of verification *)

\* C7 (as claimed): verify_key(record, secret) is true iff record.key_hash
\* equals SHA256(secret)[:16]; for every record that lacks a key_hash field,
\* a record with no fields at all included, it is true.
C7_VerifyKeyLegacy ==
    vk.called
    => vk.result = IF "key_hash" \in DOMAIN vk.record
                   THEN vk.record.key_hash = KeyHashOf(vk.user_key)
                   ELSE TRUE

\* C7 (amended): verify_key(record, secret) is false for a record with no
\* fields; for a record with fields it is true iff the record lacks key_hash
\* or its key_hash equals SHA256(secret)[:16].
C7_VerifyKey ==
    vk.called
    => vk.result = IF vk.record = EmptyDict THEN FALSE
                   ELSE IF "key_hash" \in DOMAIN vk.record
                   THEN vk.record.key_hash = KeyHashOf(vk.user_key)
                   ELSE TRUE

\* C7 witness: the key check was asked about a record with no fields and
\* answered false
C7_Witness ==
    /\ vk.called
    /\ vk.record = EmptyDict
    /\ vk.result = FALSE

\* call c of a verify request returned a record committed to another secret
ForeignRecord(c, user_key) ==
    /\ c.error = NoError
    /\ c.data # PyNone
    /\ "key_hash" \in DOMAIN c.data
    /\ c.data.key_hash # KeyHashOf(user_key)

\* C8 (as claimed): presence versus authenticity.  Whenever an extractor, the
\* requested method or a fallback method, produces a record whose key_hash
\* differs from SHA256(secret)[:16], verify reports hasWatermark true and
\* isValidKey false: no error, not 'absent', not 'verified'.
C8_PresenceVersusAuthenticity ==
    ( /\ ver.outcome # "none"
      /\ \E i \in DOMAIN ver.calls : ForeignRecord(ver.calls[i], ver.user_key) )
    => (ver.outcome = "foreign" /\ ver.hasWatermark /\ ~ver.isValidKey)

\* C9 (as claimed): metadata key check.  Extract with modality 'metadata' on
\* the result of apply with modality 'metadata' and secret k returns the record
\* that apply produced, and verify_key on it is true for k and false for every
\* secret whose SHA256 prefix differs from that of k.
C9_MetadataKeyCheck ==
    (emb.modality = "metadata" /\ ext.method = "metadata")
    => /\ ext.data = MetadataRecord(emb.text, emb.user_key, emb.strength,
                                    emb.rnd, emb.now)
       /\ vk.called
          => vk.result = (KeyHashOf(vk.user_key) = KeyHashOf(emb.user_key))

----------------------------------------------------------------------------
(* Properties of repeated applies *)

\* C10 (as claimed): determinism of apply.  For fixed secret, text, strength,
\* input image and timestamp, two calls of apply_watermark, on the same or on
\* different processor instances, return identical pixel buffers and the same
\* digest.
C10_DeterminismOfApply ==
    prev.present
    => (emb.out.px = prev.out.px /\ emb.digest = prev.digest)

----------------------------------------------------------------------------
(* Properties of the returned image *)

\* the samples of a pixel buffer are 8-bit
EightBit(image) ==
    \A k \in 1..Len(image.px) : \A c \in DOMAIN image.px[k] : image.px[k][c] \in 0..255

\* C11 (as claimed): dimension preservation.  For every modality and every
\* input image, grayscale or RGB, the image apply_watermark returns has the
\* height, width, channel count and bit depth of the input.
C11_DimensionPreservation ==
    (emb.modality # "none")
    => /\ emb.out.h = input.h
       /\ emb.out.w = input.w
       /\ Len(emb.out.px) = Len(input.px)
       /\ emb.out.mode = input.mode
       /\ \A k \in 1..Len(input.px) : Len(emb.out.px[k]) = Len(input.px[k])
       /\ EightBit(emb.out)

----------------------------------------------------------------------------
(* Properties of extraction with another strength *)

\* the owner extracted an untouched invisible result on the processor that
\* embedded it, with a strength below that of the apply
OwnerExtractedBelow ==
    /\ emb.modality = "invisible"
    /\ ext.method = "invisible"
    /\ ext.user_key = emb.user_key
    /\ ext.key = emb.key
    /\ flips = {}
    /\ ext.strength < emb.strength

\* C12 (as claimed): strength mismatch.  After apply with modality invisible
\* at strength s, extract with the same secret at any strength s' < s returns
\* an error and never a record; for an embed at 50 and an extract at 10 the
\* error is InvalidLength or InsufficientSelectedPixels.
C12_StrengthMismatch ==
    OwnerExtractedBelow
    => /\ ext.data = PyNone
       /\ ext.error # NoError
       /\ (emb.strength = 50 /\ ext.strength = 10)
          => ext.error \in {InvalidLength, InsufficientSelectedPixels}

\* C12 (amended): after apply with modality invisible at strength s, extract
\* with the same secret at any strength s' < s returns an error and never a
\* record; the error is whichever check the misread stream fails first:
\* InsufficientSelectedPixels, InvalidLength, the underrun of the stream,
\* BytesNotAligned or DecryptionFailed.
C12_MismatchRejected ==
    OwnerExtractedBelow
    => /\ ext.data = PyNone
       /\ ext.error \in {InsufficientSelectedPixels, InvalidLength, UnderrunedStream,
                         BytesNotAligned, DecryptionFailed}

\* C12 witness: an embed at 50 was extracted at 10, the misread header was a
\* length within the limits and the extraction ran out of selected pixels
C12_Witness ==
    /\ OwnerExtractedBelow
    /\ emb.written = Len(emb.binary_data)
    /\ emb.strength = 50
    /\ ext.strength = 10
    /\ ext.data = PyNone
    /\ ext.error = UnderrunedStream

----------------------------------------------------------------------------
(* Properties of the serialization *)

\* the canonical serialization: keys in lexicographic order and no
\* insignificant whitespace
CanonicalJson(keys) ==
    [keys |-> SortedKeys(keys), item_separator |-> ",", key_separator |-> ":"]

\* C15 (as claimed): canonical payload.  The byte string that is encrypted and
\* embedded is the canonical serialization of the record (keys in lexicographic
\* order, no insignificant whitespace), the same serialization whose SHA-256
\* prefix is returned as digest; it does not depend on the insertion order.
C15_CanonicalPayload ==
    (emb.modality \in LsbModalities)
    => /\ emb.signature_json = CanonicalJson(SignatureKeys(emb.modality))
       /\ emb.signature_json = emb.hashed_json

----------------------------------------------------------------------------
(* Properties of the extractors' checks *)

\* the positions the last extraction had: selected pixels for invisible,
\* pixels for steganography
Available ==
    IF ext.method = "invisible"
    THEN Len(PixelIndices(Len(img.px), get_seed_from_key(ext.user_key), ext.strength))
    ELSE Len(img.px)

\* the length prefix the last extraction decoded
DecodedLength ==
    IF ext.method = "invisible"
    THEN LsbMessageLength(img, get_seed_from_key(ext.user_key), ext.strength)
    ELSE SteganographyMessageLength(img, get_seed_from_key(ext.user_key),
                                    Redundancy(ext.strength))

\* the positions the last extraction needs for a message of the decoded length
Needed ==
    IF ext.method = "invisible" THEN LengthHeaderBits + DecodedLength
    ELSE (LengthHeaderBits + DecodedLength) * Redundancy(ext.strength)

\* the last extraction decoded a length prefix
DecodedPrefix ==
    /\ ext.method \in LsbModalities
    /\ (ext.method = "invisible") => (Available >= LengthHeaderBits)

ValidLength == DecodedLength > 0 /\ DecodedLength <= MaxMessageLength

\* an invalid length is answered with InvalidLength and no record, and the
\* steganography extractor has then made the draws of its first pass only
InvalidLengthRejected ==
    (DecodedPrefix /\ ~ValidLength)
    => /\ ext.data = PyNone
       /\ ext.error = InvalidLength
       /\ (ext.method = "steganography" /\ IsColor(img))
          => rng = Seeded(get_seed_from_key(ext.user_key),
                          PassLength(img, LengthHeaderBits * Redundancy(ext.strength)))

\* C18 (as claimed): length validation.  In both extractors a decoded length
\* prefix <= 0 or > 100000 returns InvalidLength immediately, without reading
\* payload bits or decrypting; a length that is not a multiple of 8 yields
\* BytesNotAligned before decryption.
C18_LengthValidation ==
    /\ InvalidLengthRejected
    /\ (DecodedPrefix /\ ValidLength /\ DecodedLength % 8 # 0)
       => (ext.data = PyNone /\ ext.error = BytesNotAligned)

\* C18 (amended): in both extractors a decoded length prefix <= 0 or > 100000
\* returns InvalidLength immediately; a length within the limits that is not a
\* multiple of 8 yields BytesNotAligned before decryption when the image has
\* the positions the message needs, and the underrun error when it has not.
C18_LengthChecksInOrder ==
    /\ InvalidLengthRejected
    /\ (DecodedPrefix /\ ValidLength /\ DecodedLength % 8 # 0)
       => /\ ext.data = PyNone
          /\ ext.error = IF Available < Needed THEN UnderrunedStream ELSE BytesNotAligned

\* C18 witness: an extraction decoded a length within the limits that is not a
\* multiple of 8, had the positions it needed and answered BytesNotAligned
C18_Witness ==
    /\ DecodedPrefix
    /\ ValidLength
    /\ DecodedLength % 8 # 0
    /\ Available >= Needed
    /\ ext.error = BytesNotAligned

\* C19: underrun at extract.  extract returns an error and never a record
\* whenever fewer bit positions are available than it needs: for invisible,
\* fewer than 32 selected pixels gives InsufficientSelectedPixels and fewer
\* than 32+length selected pixels (length a decoded length within the limits)
\* gives the underrun error; for steganography, fewer than r*(32+length)
\* pixels, images with fewer than 32*r pixels included, gives an error.
C19_UnderrunAtExtract ==
    (ext.method \in LsbModalities)
    => /\ (ext.method = "invisible" /\ Available < LengthHeaderBits)
          => (ext.data = PyNone /\ ext.error = InsufficientSelectedPixels)
       /\ (DecodedPrefix /\ ValidLength /\ Available < Needed)
          => (ext.data = PyNone /\ ext.error = UnderrunedStream)
       /\ (ext.method = "steganography"
           /\ Available < LengthHeaderBits * Redundancy(ext.strength))
          => (ext.data = PyNone /\ ext.error \in {InvalidLength, UnderrunedStream})
       /\ (ext.data # PyNone) => (ValidLength /\ Available >= Needed)

\* C19 witness: an invisible extraction selected at least 32 pixels, decoded
\* the length of the embedded message and had fewer selected pixels than the
\* message needs
C19_Witness ==
    /\ ext.method = "invisible"
    /\ emb.modality = "invisible"
    /\ Available >= LengthHeaderBits
    /\ DecodedLength = Len(emb.binary_data) - LengthHeaderBits
    /\ Available < Needed
    /\ ext.data = PyNone
    /\ ext.error = UnderrunedStream

\* C19 second case reached: a steganography extraction on an image with fewer
\* pixels than the redundant message needs
SteganographyUnderrun ==
    /\ ext.method = "steganography"
    /\ ValidLength
    /\ Available < Needed
    /\ ext.error = UnderrunedStream

----------------------------------------------------------------------------
(* Properties of request validation *)

\* C16 (as claimed): unknown modality.  apply and extract called with a
\* modality tag outside {invisible, steganography, frequency, metadata} yield
\* an error that is returned to the caller as a value, not thrown, and the
\* verify operation built on extract likewise answers with an error result
\* rather than failing with an internal exception.
C16_UnknownModality ==
    /\ "raised" \notin DOMAIN emb
    /\ (ext.method \notin KnownMethods \cup {"none"})
       => (ext.data = PyNone /\ ext.error = UnknownMethod)
    /\ (ver.outcome # "none" /\ ver.method \notin KnownMethods)
       => ver.outcome # "error"

\* C17 (as claimed): strength validation.  Every apply and every
\* extract/verify request whose strength is outside the integer range [0,100]
\* is rejected with an InvalidStrength error before any embedding or
\* extraction is performed.
C17_StrengthValidation ==
    /\ (resp.status # 0 /\ resp.strength \notin 0..100)
       => (resp.status = 400 /\ resp.error[1] = StrengthOutOfRange)
    /\ (ext.method # "none" /\ ext.strength \notin 0..100)
       => (ext.data = PyNone /\ ext.error = StrengthOutOfRange)
    /\ (ver.outcome # "none" /\ ver.strength \notin 0..100)
       => (ver.outcome = "error" /\ ver.calls = <<>>)

----------------------------------------------------------------------------
(* Properties of a tampered ciphertext *)

\* the owner extracted, with the modality, secret and strength of the apply
\* and on the processor that embedded, after one ciphertext LSB was flipped
OwnerExtractedTampered ==
    /\ emb.modality \in LsbModalities
    /\ Cardinality(flips) = 1
    /\ flips \subseteq CipherPositions
    /\ ext.method = emb.modality
    /\ ext.user_key = emb.user_key
    /\ ext.strength = emb.strength
    /\ ext.key = emb.key

\* the frame bit the flipped position carries
FlippedFrameBit == FrameBitOf(CHOOSE k \in flips : TRUE)

\* the frame bits that base64 decoding of the token keeps: all but the unused
\* low bits of its last character
SignificantFrameBits ==
    LET slack == Base64Slack(FernetTokenLength(JsonLength(JsonDumps(EmbeddedRecord))))
    IN  (LengthHeaderBits + 1)..(Len(emb.binary_data) - slack)

----------------------------------------------------------------------------
(* Properties of concurrent operations *)

\* C14 (as claimed): PRNG isolation.  The generator state an operation uses is
\* private to it: when two operations run concurrently, each observes exactly
\* the draw sequence its own seed determines; no process-wide state lets one
\* operation change what another observes.
C14_PrngIsolation ==
    \A t \in Threads :
        thr[t].pc # "idle"
        => \A i \in 1..Len(thr[t].obs) : thr[t].obs[i] = Mix(thr[t].seed, i - 1)

----------------------------------------------------------------------------
(* Properties of the framing *)

\* C20: framing round trip.  For every ciphertext the framed payload is a
\* 32-bit MSB-first length prefix whose value is the number of ciphertext bits
\* that follow, followed by each ciphertext byte MSB-first (32 + 8*|bytes| bits
\* in all), and parsing the length, taking that many bits and assembling bytes
\* MSB-first yields the original ciphertext bytes.
C20_FramingRoundTrip ==
    (fr.stage # "none")
    => /\ Len(fr.frame) = LengthHeaderBits + 8 * Len(fr.token)
       /\ BinToInt(SubSeq(fr.frame, 1, LengthHeaderBits)) = 8 * Len(fr.token)
       /\ \A b \in 1..Len(fr.token) : \A i \in 1..8 :
              fr.frame[LengthHeaderBits + 8 * (b - 1) + i]
                  = (fr.token[b] \div Pow2(8 - i)) % 2
       /\ (fr.stage = "parsed")
          => (fr.message_length = 8 * Len(fr.token) /\ fr.bytes = fr.token)

\* C20 witness: a token of several different bytes was framed and parsed back
C20_Witness ==
    /\ fr.stage = "parsed"
    /\ Len(fr.token) = MaxTokenBytes
    /\ fr.token[1] # fr.token[2]
    /\ fr.bytes = fr.token

----------------------------------------------------------------------------
(* Properties of the frequency extractor *)

\* the sentinel record of the frequency extractor for a secret
DetectedSentinel(user_key) ==
    [detected |-> TRUE, method |-> "frequency_domain",
     seed_used |-> get_seed_from_key(user_key)]

\* C21: frequency extraction is presence detection only.  extract with
\* modality 'frequency' returns the sentinel 'detected' record with no error
\* for every image and every secret, without inspecting the image and without
\* recovering any payload.
C21_FrequencySentinel ==
    (ext.method = "frequency")
    => /\ ext.error = NoError
       /\ ext.data = DetectedSentinel(ext.user_key)

\* C21 witness: the sentinel was returned for an upload that no apply
\* produced, and for a secret other than the one of any apply
C21_Witness ==
    /\ ext.method = "frequency"
    /\ emb.modality = "none"
    /\ img.file
    /\ ext.user_key = "hunter3"
    /\ ext.error = NoError
    /\ ext.data = DetectedSentinel("hunter3")

----------------------------------------------------------------------------
(* Properties of the verify route's retries *)

\* the place of a modality in the fixed order
OrderRank(m) ==
    CASE m = "invisible" -> 1 [] m = "steganography" -> 2
      [] m = "frequency" -> 3 [] m = "metadata" -> 4 [] OTHER -> 0

\* the last verify request was asked with a known modality whose extraction
\* failed
VerifyRetried ==
    /\ ver.outcome # "none"
    /\ ver.method \in KnownMethods
    /\ ~(Truthy(ver.calls[1].data) /\ ver.calls[1].error = NoError)

\* call i of the last verify request returned a record that verifies
CallVerifies(i) ==
    /\ Truthy(ver.calls[i].data)
    /\ ver.calls[i].error = NoError
    /\ verify_user_key(ver.calls[i].data, ver.user_key)

\* C22: verify retry order.  When extraction with the caller-supplied modality
\* (one of the four) fails, verify tries the remaining three modalities, each
\* at most once, in the fixed order invisible, steganography, frequency,
\* metadata with the already-tried one removed, using the same secret and
\* strength; it answers with the first modality whose record verifies under
\* the key and reports 'no watermark' only after all of them have failed.
C22_VerifyRetryOrder ==
    VerifyRetried
    => /\ ver.calls[1].method = ver.method
       /\ Len(ver.calls) \in 2..4
       /\ \A i \in 2..Len(ver.calls) :
              /\ ver.calls[i].method \in KnownMethods \ {ver.method}
              /\ \A m \in KnownMethods \ {ver.method} :
                     (OrderRank(m) < OrderRank(ver.calls[i].method))
                     <=> (\E j \in 2..(i - 1) : ver.calls[j].method = m)
              /\ \E result \in {extract_watermark(img, ver.key, ver.user_key,
                                                  ver.calls[i].method, ver.strength)} :
                     /\ ver.calls[i].data = result.data
                     /\ ver.calls[i].error = result.error
              /\ (i < Len(ver.calls)) => ~CallVerifies(i)
       /\ ver.outcome \in {"verified", "absent"}
       /\ (ver.outcome = "verified")
          => (CallVerifies(Len(ver.calls)) /\ ver.details = ver.calls[Len(ver.calls)].data)
       /\ (ver.outcome = "absent")
          => (Len(ver.calls) = 4 /\ ~CallVerifies(4))

\* C22 witness: a request with modality metadata found nothing, invisible and
\* steganography failed in turn and the third alternative verified
C22_Witness ==
    /\ VerifyRetried
    /\ ver.method = "metadata"
    /\ Len(ver.calls) = 4
    /\ ver.calls[2].method = "invisible"
    /\ ver.calls[3].method = "steganography"
    /\ ver.calls[4].method = "frequency"
    /\ ver.outcome = "verified"

----------------------------------------------------------------------------
(* Properties of buffer ownership *)

----------------------------------------------------------------------------
(* Properties of the spatial embedder's loop *)

\* the pixels _extract_lsb_watermark selects in the image the last apply
\* returned, with the secret and strength of that apply
ExtractorPixels ==
    PixelIndices(Len(emb.out.px), get_seed_from_key(emb.user_key), emb.strength)

\* C24: spatial PRNG lockstep.  For the same seed, strength and image
\* dimensions, at every row-major pixel step k up to the step where embed
\* writes its last payload bit, the uniform draw made by embed_lsb_with_key
\* and by _extract_lsb_watermark is the same, so for every n the n-th pixel
\* written by embed is the n-th pixel read by extract.
C24_SpatialLockstep ==
    (emb.modality = "invisible")
    => /\ Len(emb.positions) = emb.written
       /\ Len(emb.positions) <= Len(ExtractorPixels)
       /\ \A n \in 1..Len(emb.positions) :
              /\ emb.positions[n].draw = emb.positions[n].pixel - 1
              /\ emb.positions[n].pixel = ExtractorPixels[n]

\* C24 witness: embed wrote its whole frame and stopped drawing before the end
\* of the image, while the extractor selects further pixels behind the last
\* one written
C24_Witness ==
    /\ emb.modality = "invisible"
    /\ emb.written = Len(emb.binary_data)
    /\ Len(ExtractorPixels) > emb.written
    /\ emb.positions[emb.written].pixel = ExtractorPixels[emb.written]

----------------------------------------------------------------------------
(* Channel alignment of the redundant writer and the two extraction passes *)

\* the owner ran the steganography extractor, with the secret and strength of
\* the apply, on a steganography result that is an RGB image
RedundantColorExtraction ==
    /\ emb.modality = "steganography"
    /\ ext.method = "steganography"
    /\ ext.user_key = emb.user_key
    /\ ext.strength = emb.strength
    /\ IsColor(img)
    /\ Len(img.px) = Len(emb.out.px)

----------------------------------------------------------------------------
(* The majority vote of the steganography extractor *)

\* the block of at most r extracted bits that begins at bit `from` of a pass
\* that collected `count` bits
Block(image, seed, start, count, from, r) ==
    [j \in 1..Max(0, Min(from + r - 1, count) - from + 1) |->
        ExtractedBit(image, seed, start, from + j - 1)]

Ones(bits) == Cardinality({ j \in 1..Len(bits) : bits[j] = 1 })

\* 1 iff strictly more than half of the bits are 1
StrictMajority(bits) == IF 2 * Ones(bits) > Len(bits) THEN 1 ELSE 0

\* the length header as strict majorities of the blocks of the first pass
StrictMajorityLength(image, seed, r) ==
    LET first_count == PassLength(image, LengthHeaderBits * r)
    IN  BinToInt([i \in 1..LengthHeaderBits |->
                     StrictMajority(Block(image, seed, FirstPassStart, first_count,
                                          (i - 1) * r + 1, r))])

\* the message as strict majorities of the blocks of the second pass
StrictMajorityMessage(image, seed, r, message_length) ==
    LET first_count == PassLength(image, LengthHeaderBits * r)
        count == PassLength(image, (LengthHeaderBits + message_length) * r)
    IN  [i \in 1..message_length |->
            StrictMajority(Block(image, seed, SecondPassStart(first_count), count,
                                 (LengthHeaderBits + i - 1) * r + 1, r))]

\* C26: majority vote.  The steganography extractor decodes each consecutive
\* block of r extracted bits to 1 iff strictly more than half of the block's
\* bits are 1; a tie (and an empty block) decodes to 0, both for the length
\* header and for the message.
C26_MajorityVote ==
    ext.method = "steganography" =>
        LET seed == get_seed_from_key(ext.user_key)
            r == Redundancy(ext.strength)
            message_length == StrictMajorityLength(img, seed, r)
            total_bits_needed == (LengthHeaderBits + message_length) * r
            decoded == DecodeMessage(ext.key,
                                     StrictMajorityMessage(img, seed, r, message_length), 0)
        IN  IF message_length <= 0 \/ message_length > MaxMessageLength
            THEN ext.error = InvalidLength
            ELSE IF Len(img.px) < total_bits_needed
            THEN ext.error = UnderrunedStream
            ELSE ext.error = decoded.error /\ ext.data = decoded.data

\* C26 witness: the extractor voted on a block of the embedded stream that a
\* flip left tied, and read it as 0
C26_TiedBlock ==
    /\ ext.method = "steganography"
    /\ ext.user_key = emb.user_key
    /\ ext.strength = emb.strength
    /\ flips # {}
    /\ LET seed == get_seed_from_key(ext.user_key)
           r == Redundancy(ext.strength)
       IN  \E b \in 1..(emb.written \div r) :
               LET block == Block(img, seed, FirstPassStart, emb.written,
                                  (b - 1) * r + 1, r)
               IN  Len(block) = r /\ 2 * Ones(block) = r /\ StrictMajority(block) = 0

----------------------------------------------------------------------------
(* The effect of the invisible embed on the samples of the image *)

\* the index, in a pixel of the model, of the sample the invisible modality
\* writes: the blue one of an RGB pixel, the only one of a grayscale pixel
CarrierSample(image) == IF IsColor(image) THEN 3 ELSE 1

\* the samples, as <<pixel, sample>>, in which two images of one shape differ
ChangedSamples(before, after) ==
    { s \in (1..Len(before.px)) \X (1..3) :
          /\ s[2] <= Len(before.px[s[1]])
          /\ before.px[s[1]][s[2]] # after.px[s[1]][s[2]] }

\* C27: LSB-only effect of the invisible embed.  The output of
\* embed_lsb_with_key differs from its input in at most |b| samples, each
\* differing only in its least significant bit, and only in the blue channel
\* (index 2) of an RGB image or the single channel of a grayscale image; every
\* other bit, channel and pixel is unchanged, and pixels are written in
\* row-major order with the n-th written pixel carrying bit n of b.
C27_LsbOnlyEffect ==
    emb.modality = "invisible" =>
        LET b == emb.binary_data
            before == emb.given
            after == emb.out
            carrier == CarrierSample(before)
            written == { emb.positions[n].pixel : n \in 1..Len(emb.positions) }
        IN  /\ Len(after.px) = Len(before.px)
            /\ Cardinality(ChangedSamples(before, after)) <= Len(b)
            /\ \A s \in ChangedSamples(before, after) :
                   /\ s[2] = carrier
                   /\ s[1] \in written
                   /\ after.px[s[1]][s[2]] \div 2 = before.px[s[1]][s[2]] \div 2
            /\ Len(emb.positions) = emb.written
            /\ emb.written <= Len(b)
            /\ \A n \in 1..Len(emb.positions) :
                   /\ n > 1 => emb.positions[n - 1].pixel < emb.positions[n].pixel
                   /\ Lsb(after.px[emb.positions[n].pixel][carrier]) = b[n]

\* C27 witness: an invisible embed changed samples of an RGB image whose
\* samples are not all alike, and left a written sample as it was
C27_Witness ==
    /\ emb.modality = "invisible"
    /\ IsColor(emb.given)
    /\ emb.written > 0
    /\ ChangedSamples(emb.given, emb.out) # {}
    /\ Cardinality(ChangedSamples(emb.given, emb.out)) < emb.written
    /\ \E k \in 1..Len(emb.given.px) : emb.given.px[k][3] % 4 >= 2

----------------------------------------------------------------------------
(* Verification of images that were never watermarked *)

\* the verify endpoint answered hasWatermark = true with isValidKey = true
AnsweredVerified ==
    ver.outcome # "none" /\ ver.hasWatermark /\ ver.isValidKey

\* some extractor the request called returned a record whose key_hash is the
\* key hash of the supplied user key
SomeCallMatchesKey ==
    \E i \in DOMAIN ver.calls :
        /\ Truthy(ver.calls[i].data)
        /\ "key_hash" \in DOMAIN ver.calls[i].data
        /\ ver.calls[i].data.key_hash = KeyHashOf(ver.user_key)

\* C28 (as claimed): no false verification.  For an image that has never been
\* watermarked, the verify endpoint never answers hasWatermark = true with
\* isValidKey = true, whatever method, strength and user key are supplied;
\* that answer is given only when some extractor returned a record whose
\* key_hash equals SHA256(userKey)[:16].
C28_NoFalseVerification ==
    /\ emb.modality = "none" => ~AnsweredVerified
    /\ AnsweredVerified => SomeCallMatchesKey

----------------------------------------------------------------------------
(* Lengths the embedder writes and the extractor accepts *)

\* the whole frame, with its copies, went into the image
LongWrittenCompletely ==
    cap.written =
        (IF cap.modality = "steganography" THEN Redundancy(cap.strength) ELSE 1)
            * (LengthHeaderBits + cap.message_bits)

\* C29 (as claimed): embed/extract length agreement.  Apply never embeds a
\* frame whose ciphertext is longer than 100000 bits (the extractor's upper
\* limit), so no watermark written completely into a large enough image is
\* rejected as InvalidLength when extracted with the right secret and strength.
C29_LengthAgreement ==
    /\ cap.stage # "none" => cap.message_bits <= MaxMessageLength
    /\ (cap.stage = "extracted" /\ LongWrittenCompletely) => cap.error # InvalidLength

----------------------------------------------------------------------------
(* Keys of generate_user_key *)

\* a key was generated while the generator was as an apply or an extraction
\* of the same process had seeded it
AfterOperation(e) ==
    /\ e.state.seed # EntropySeed
    /\ e.applied.modality # "none" \/ e.extracted.method # "none"

\* C30 (as claimed): generated keys are independent of earlier operations.
\* The key generate_user_key returns is not a function of the secret, image
\* size and modality of an apply or extract operation that ran before it in
\* the same process; two runs that perform the same preceding operation do
\* not thereby obtain the same generated key.
C30_GeneratedKeyIndependence ==
    \A e1, e2 \in gen :
        ( /\ e1.process # e2.process
          /\ AfterOperation(e1) /\ AfterOperation(e2)
          /\ e1.applied = e2.applied
          /\ e1.extracted = e2.extracted )
        => e1.key # e2.key

====
